---- MODULE Spec2Model ----
(***************************************************************************)
(* Model of owslib.feature.WebFeatureService_ (src/owslib/feature/         *)
(* __init__.py): the KVP bounding-box formatter getBBOXKVP, the CRS lookup *)
(* getSRS, the POST document factory create_post_request and the two       *)
(* GetFeature request builders getGETGetFeatureRequest and                 *)
(* getPOSTGetFeatureRequest.                                               *)
(*                                                                         *)
(* Python strings are sequences of one-character strings, so that          *)
(* indexing, endswith, split, join and lower are computed as Python        *)
(* computes them.  Optional and dynamically typed arguments are tagged     *)
(* records (None, Str, List, Num, Tuple, Dict).  A call either returns     *)
(* (Ok) or raises (Raise).                                                 *)
(***************************************************************************)
EXTENDS Integers, Sequences, FiniteSets, TLC

VARIABLES version, contents, methods, op, args, result, request, log, created

vars == <<version, contents, methods, op, args, result, request, log, created>>

(***************************************************************************)
(* Bounds of the model.                                                    *)
(***************************************************************************)
\* bounding-box corner coordinates range over 0..MaxCoord (+ BoxSize)
MaxCoord == 1
\* longest GetFeature method list of the capability metadata
MaxMethods == 2
\* most entries of a storedQueryParams mapping
MaxParams == 1
\* most places in which a builder call departs from the signature's defaults
MaxSupplied == 2

(***************************************************************************)
(* Python values.                                                          *)
(***************************************************************************)
None == [tag |-> "none"]
Str(s) == [tag |-> "str", v |-> s]
List(l) == [tag |-> "list", v |-> l]
Num(n) == [tag |-> "int", v |-> n]
Tuple(t) == [tag |-> "tuple", v |-> t]
Dict(d) == [tag |-> "dict", v |-> d]

Ok(v) == [tag |-> "ok", v |-> v]
Raise(e) == [tag |-> "raise", exc |-> e]

\* bool(x): None, "", [], (), {} and 0 are false
Truthy(x) ==
    CASE x.tag = "none" -> FALSE
      [] x.tag = "int" -> x.v # 0
      [] OTHER -> Len(x.v) > 0

(***************************************************************************)
(* Python string operations.                                               *)
(***************************************************************************)
RECURSIVE Join(_, _)
\* sep.join(parts)
Join(sep, parts) ==
    IF Len(parts) = 0 THEN <<>>
    ELSE IF Len(parts) = 1 THEN parts[1]
    ELSE parts[1] \o sep \o Join(sep, Tail(parts))

RECURSIVE Split(_, _)
\* s.split(c) for a one-character separator c
Split(s, c) ==
    IF \A i \in 1..Len(s) : s[i] # c THEN <<s>>
    ELSE LET i == CHOOSE k \in 1..Len(s) : s[k] = c /\ \A j \in 1..(k - 1) : s[j] # c
         IN  <<SubSeq(s, 1, i - 1)>> \o Split(SubSeq(s, i + 1, Len(s)), c)

\* s.endswith(c) for a one-character suffix c
EndsWith(s, c) == Len(s) > 0 /\ s[Len(s)] = c

LowerChar(c) ==
    CASE c = "G" -> "g" [] c = "E" -> "e" [] c = "T" -> "t"
      [] c = "P" -> "p" [] c = "O" -> "o" [] c = "S" -> "s"
      [] OTHER -> c

\* s.lower()
Lower(s) == [i \in 1..Len(s) |-> LowerChar(s[i])]

Digits == <<"0", "1", "2", "3", "4", "5", "6", "7", "8", "9">>

RECURSIVE StrInt(_)
\* str(n), "%s" % n for a natural number n
StrInt(n) ==
    IF n < 10 THEN <<Digits[n + 1]>>
    ELSE StrInt(n \div 10) \o <<Digits[(n % 10) + 1]>>

RECURSIVE IntStr(_)
\* int(s) for a non-empty string of decimal digits
IntStr(s) ==
    LET d == (CHOOSE k \in 1..10 : Digits[k] = s[Len(s)]) - 1
    IN  IF Len(s) = 1 THEN d ELSE 10 * IntStr(SubSeq(s, 1, Len(s) - 1)) + d

(***************************************************************************)
(* owslib.crs.Crs: a CRS parsed from its identifier.  The identifiers of   *)
(* the model are "AUTH:CODE" (encoding "code") and                         *)
(* "urn:ogc:def:crs:AUTH::CODE" (encoding "urn"); the axis order is "yx"   *)
(* for the codes of the yx table and "xy" otherwise.                       *)
(***************************************************************************)
sEPSG == <<"E", "P", "S", "G">>
s4326 == <<"4", "3", "2", "6">>
s3857 == <<"3", "8", "5", "7">>
sUrn == <<"u", "r", "n">>
sUrnPrefix == <<"u", "r", "n", ":", "o", "g", "c", ":", "d", "e", "f", ":", "c", "r", "s", ":">>
sColon == <<":">>
sComma == <<",">>

axisorder_yx == {s4326}

Crs(id) ==
    LET values == Split(id, ":")
        isurn == values[1] = sUrn
        code == IF isurn THEN values[7] ELSE values[2]
    IN  [id |-> id,
         authority |-> IF isurn THEN values[5] ELSE values[1],
         code |-> code,
         encoding |-> IF isurn THEN "urn" ELSE "code",
         axisorder |-> IF code \in axisorder_yx THEN "yx" ELSE "xy"]

\* Crs.getcode(): "AUTH:CODE"
getcode(srs) == srs.authority \o sColon \o srs.code

\* Crs.getcodeurn(): "urn:ogc:def:crs:AUTH::CODE"
getcodeurn(srs) == sUrnPrefix \o srs.authority \o sColon \o sColon \o srs.code

\* Crs.__eq__: two CRSs are equal when their URN codes are
CrsEq(a, b) == getcodeurn(a) = getcodeurn(b)

idEPSG4326 == sEPSG \o sColon \o s4326
idEPSG3857 == sEPSG \o sColon \o s3857
idUrn4326 == sUrnPrefix \o sEPSG \o sColon \o sColon \o s4326
idUrn3857 == sUrnPrefix \o sEPSG \o sColon \o sColon \o s3857

CrsIds == {idEPSG4326, idEPSG3857, idUrn4326, idUrn3857}

(***************************************************************************)
(* The service object: protocol version, feature types of the capability  *)
(* metadata (self.contents) and the method list of the GetFeature          *)
(* operation (self.getOperationByName("GetFeature").methods).              *)
(***************************************************************************)
V100 == <<"1", ".", "0", ".", "0">>
V110 == <<"1", ".", "1", ".", "0">>
V200 == <<"2", ".", "0", ".", "0">>
V20 == <<"2", ".", "0">>

Versions == {V100, V110, V200, V20}

nA == <<"a">>
nAB == <<"a", "b">>
nBA == <<"b", "a">>

\* self.contents: feature-type name -> its ordered CRS options
Contents ==
    (nAB :> [crsOptions |-> <<Crs(idUrn4326), Crs(idEPSG3857)>>]) @@
    (nA :> [crsOptions |-> <<Crs(idEPSG3857), Crs(idUrn3857)>>])

Self == [version |-> version, contents |-> contents, methods |-> methods]

(***************************************************************************)
(* getBBOXKVP(self, bbox, typename), lines 25-81.                          *)
(***************************************************************************)
\* typename[0] of line 42: the first element of a list, the first
\* character of a string
Subscript0(typename) ==
    CASE typename.tag = "none" -> Raise("TypeError")
      [] Len(typename.v) = 0 -> Raise("IndexError")
      [] typename.tag = "str" -> Ok(<<typename.v[1]>>)
      [] OTHER -> Ok(typename.v[1])

\* lines 35-42: the CRS of the box
BBoxSrs(self, bbox, typename) ==
    IF Len(bbox.v) = 5 THEN Ok(Crs(bbox.v[5]))
    ELSE LET first == Subscript0(typename)
         IN  IF first.tag = "raise" THEN first
             ELSE IF first.v \notin DOMAIN self.contents THEN Raise("KeyError")
             ELSE IF Len(self.contents[first.v].crsOptions) = 0 THEN Raise("IndexError")
             ELSE Ok(self.contents[first.v].crsOptions[1])

\* "%s,%s,%s,%s,%s" % (a, b, c, d, code)
FormatBBox(a, b, c, d, code) ==
    Join(sComma, <<StrInt(a), StrInt(b), StrInt(c), StrInt(d), code>>)

\* faulty variant: the axis-order test is inverted
BBoxFormatFlipped(self, b, srs) ==
    IF self.version \in {V110, V200}
    THEN IF srs.encoding = "urn"
         THEN IF srs.axisorder # "yx"
              THEN FormatBBox(b[2], b[1], b[4], b[3], getcodeurn(srs))
              ELSE FormatBBox(b[1], b[2], b[3], b[4], getcodeurn(srs))
         ELSE FormatBBox(b[1], b[2], b[3], b[4], getcode(srs))
    ELSE FormatBBox(b[1], b[2], b[3], b[4], getcode(srs))

\* lines 44-81: the five tokens for a resolved CRS
BBoxFormat(self, b, srs) ==
    IF self.version \in {V110, V200}
    THEN IF srs.encoding = "urn"
         THEN IF srs.axisorder = "yx"
              THEN FormatBBox(b[2], b[1], b[4], b[3], getcodeurn(srs))
              ELSE FormatBBox(b[1], b[2], b[3], b[4], getcodeurn(srs))
         ELSE FormatBBox(b[1], b[2], b[3], b[4], getcode(srs))
    ELSE FormatBBox(b[1], b[2], b[3], b[4], getcode(srs))

getBBOXKVP(self, bbox, typename) ==
    LET srs == BBoxSrs(self, bbox, typename)
    IN  IF srs.tag = "raise" THEN srs
        ELSE Ok(BBoxFormat(self, bbox.v, srs.v))

(***************************************************************************)
(* create_post_request(self), lines 83-86: the document builder of the     *)
(* version, or None.                                                       *)
(***************************************************************************)
\* faulty variant: every version gets the 2.0.0 builder
create_post_request_any(self) == Str("PostRequest_2_0_0")

create_post_request(self) ==
    IF self.version \in {V20, V200} THEN Str("PostRequest_2_0_0") ELSE None

(***************************************************************************)
(* getSRS(self, srsname, typename), lines 88-114.  srsname is an           *)
(* identifier string (parsed, line 95) or a Crs (tag "crs", line 97).      *)
(***************************************************************************)
\* list.index(x): the position of the first element equal to x, 0 if none
CrsIndex(options, srs) ==
    IF \E i \in 1..Len(options) : CrsEq(options[i], srs)
    THEN CHOOSE i \in 1..Len(options) :
            CrsEq(options[i], srs) /\ \A j \in 1..(i - 1) : ~CrsEq(options[j], srs)
    ELSE 0

\* the warning of lines 106-113
SrsWarning(self, srs, typename) ==
    [msg |-> "srsName not allowed", code |-> getcode(srs), typename |-> typename,
     options |-> [i \in 1..Len(self.contents[typename].crsOptions) |->
                    self.contents[typename].crsOptions[i].id]]

SrsArg(srsname) == IF srsname.tag = "crs" THEN srsname.v ELSE Crs(srsname.v)

\* faulty variant: the caller's CRS is returned instead of the declared entry
getSRSRequested(self, srsname, typename) ==
    LET srs == SrsArg(srsname)
    IN  IF typename \notin DOMAIN self.contents THEN Raise("KeyError")
        ELSE LET index == CrsIndex(self.contents[typename].crsOptions, srs)
             IN  IF index # 0 THEN Ok([tag |-> "crs", v |-> srs])
                 ELSE Ok(None)

\* self.contents[typename] raises KeyError outside the try's ValueError
getSRS(self, srsname, typename) ==
    LET srs == SrsArg(srsname)
    IN  IF typename \notin DOMAIN self.contents THEN Raise("KeyError")
        ELSE LET index == CrsIndex(self.contents[typename].crsOptions, srs)
             IN  IF index # 0
                 THEN Ok([tag |-> "crs", v |-> self.contents[typename].crsOptions[index]])
                 ELSE Ok(None)

getSRSLog(self, srsname, typename) ==
    IF typename \in DOMAIN self.contents
       /\ CrsIndex(self.contents[typename].crsOptions, SrsArg(srsname)) = 0
    THEN <<SrsWarning(self, SrsArg(srsname), typename)>>
    ELSE <<>>

(***************************************************************************)
(* The request mapping of the GET builder: a Python dict, kept as the      *)
(* sequence of its <<key, value>> items in insertion order.                *)
(***************************************************************************)
DictHas(d, k) == \E i \in 1..Len(d) : d[i][1] = k

DictGet(d, k) == d[CHOOSE i \in 1..Len(d) : d[i][1] = k][2]

\* d[k] = v: an existing key keeps its position and takes the new value
DictSet(d, k, v) ==
    IF DictHas(d, k)
    THEN [i \in 1..Len(d) |-> IF d[i][1] = k THEN <<k, v>> ELSE d[i]]
    ELSE Append(d, <<k, v>>)

kService == <<"s", "e", "r", "v", "i", "c", "e">>
kVersion == <<"v", "e", "r", "s", "i", "o", "n">>
kRequest == <<"r", "e", "q", "u", "e", "s", "t">>
kFeatureid == <<"f", "e", "a", "t", "u", "r", "e", "i", "d">>
kBbox == <<"b", "b", "o", "x">>
kQuery == <<"q", "u", "e", "r", "y">>
kFilter == <<"f", "i", "l", "t", "e", "r">>
kTypenames == <<"t", "y", "p", "e", "n", "a", "m", "e", "s">>
kTypename == <<"t", "y", "p", "e", "n", "a", "m", "e">>
kPropertyname == <<"p", "r", "o", "p", "e", "r", "t", "y", "n", "a", "m", "e">>
kSortby == <<"s", "o", "r", "t", "b", "y">>
kFeatureversion == <<"f", "e", "a", "t", "u", "r", "e", "v", "e", "r", "s", "i", "o", "n">>
kCount == <<"c", "o", "u", "n", "t">>
kMaxfeatures == <<"m", "a", "x", "f", "e", "a", "t", "u", "r", "e", "s">>
kStartindex == <<"s", "t", "a", "r", "t", "i", "n", "d", "e", "x">>
kStoredQueryId == <<"s", "t", "o", "r", "e", "d", "Q", "u", "e", "r", "y", "_", "i", "d">>
kOutputFormat == <<"o", "u", "t", "p", "u", "t", "F", "o", "r", "m", "a", "t">>
sWFS == <<"W", "F", "S">>
sGetFeature == <<"G", "e", "t", "F", "e", "a", "t", "u", "r", "e">>

\* urllib.parse.quote_plus on one character
QuoteChar(c) ==
    CASE c = "," -> <<"%", "2", "C">>
      [] c = ":" -> <<"%", "3", "A">>
      [] c = "?" -> <<"%", "3", "F">>
      [] c = "<" -> <<"%", "3", "C">>
      [] c = ">" -> <<"%", "3", "E">>
      [] c = "/" -> <<"%", "2", "F">>
      [] c = " " -> <<"+">>
      [] OTHER -> <<c>>

RECURSIVE QuotePlus(_)
QuotePlus(s) == IF Len(s) = 0 THEN <<>> ELSE QuoteChar(s[1]) \o QuotePlus(Tail(s))

\* urlencode(request, doseq=True) for string values: k=v joined by "&"
urlencode(d) ==
    Join(<<"&">>, [i \in 1..Len(d) |-> QuotePlus(d[i][1]) \o <<"=">> \o QuotePlus(d[i][2])])

(***************************************************************************)
(* Endpoint lookup, lines 167-173 and 275-281: next() over the entries of  *)
(* the method list whose type equals the requested method, both lowered.   *)
(***************************************************************************)
MethodMatches(m, method) == Lower(m.type) = Lower(method)

\* faulty variant: the comparison is case-sensitive
LookupUrlCaseSensitive(self, method) ==
    LET hits == SelectSeq(self.methods, LAMBDA m : m.type = method)
    IN  IF Len(hits) = 0 THEN Raise("StopIteration") ELSE Ok(hits[1].url)

LookupUrl(self, method) ==
    LET hits == SelectSeq(self.methods, LAMBDA m : MethodMatches(m, method))
    IN  IF Len(hits) = 0 THEN Raise("StopIteration") ELSE Ok(hits[1].url)

\* int(self.version.split(".")[0])
MajorVersion(self) == IntStr(Split(self.version, ".")[1])

\* [typename] if isinstance(typename, str) else typename
AsList(typename) == IF typename.tag = "str" THEN <<typename.v>> ELSE typename.v

(***************************************************************************)
(* getGETGetFeatureRequest, lines 116-215.  Each step takes the request    *)
(* mapping built so far; the steps run in the order of the source.         *)
(***************************************************************************)
\* line 174
GetBaseUrl(url) == IF EndsWith(url, "?") THEN url ELSE url \o <<"?">>

\* line 176
RequestInit(self) ==
    <<<<kService, sWFS>>, <<kVersion, self.version>>, <<kRequest, sGetFeature>>>>

\* faulty variant: bbox is tested before featureid
SetSelectorBboxFirst(self, a, req) ==
    IF Truthy(a.bbox)
    THEN LET kvp == getBBOXKVP(self, a.bbox, a.typename)
         IN  IF kvp.tag = "raise" THEN kvp ELSE Ok(DictSet(req, kBbox, kvp.v))
    ELSE IF Truthy(a.featureid) THEN Ok(DictSet(req, kFeatureid, Join(sComma, a.featureid.v)))
    ELSE IF Truthy(a.filter) THEN Ok(DictSet(req, kQuery, a.filter.v))
    ELSE Ok(req)

\* lines 179-184: the selector, Ok(request) or the error of getBBOXKVP
SetSelector(self, a, req) ==
    IF Truthy(a.featureid) THEN Ok(DictSet(req, kFeatureid, Join(sComma, a.featureid.v)))
    ELSE IF Truthy(a.bbox)
    THEN LET kvp == getBBOXKVP(self, a.bbox, a.typename)
         IN  IF kvp.tag = "raise" THEN kvp ELSE Ok(DictSet(req, kBbox, kvp.v))
    ELSE IF Truthy(a.filter) THEN Ok(DictSet(req, kQuery, a.filter.v))
    ELSE Ok(req)

\* lines 185-192
SetTypename(self, a, req) ==
    IF Truthy(a.typename)
    THEN IF MajorVersion(self) >= 2
         THEN DictSet(req, kTypenames, Join(sComma, AsList(a.typename)))
         ELSE DictSet(req, kTypename, Join(sComma, AsList(a.typename)))
    ELSE req

\* lines 193-198
SetPassThrough(a, req) ==
    LET r1 == IF Truthy(a.propertyname)
              THEN DictSet(req, kPropertyname, Join(sComma, a.propertyname.v)) ELSE req
        r2 == IF Truthy(a.sortby) THEN DictSet(r1, kSortby, Join(sComma, a.sortby.v)) ELSE r1
    IN  IF Truthy(a.featureversion) THEN DictSet(r2, kFeatureversion, a.featureversion.v)
        ELSE r2

\* faulty variant: maxfeatures keeps its 1.x key under every version
SetPagingOldKey(self, a, req) ==
    LET r1 == IF Truthy(a.maxfeatures)
              THEN DictSet(req, kMaxfeatures, StrInt(a.maxfeatures.v))
              ELSE req
    IN  IF Truthy(a.startindex) THEN DictSet(r1, kStartindex, StrInt(a.startindex.v)) ELSE r1

\* lines 199-205
SetPaging(self, a, req) ==
    LET r1 == IF Truthy(a.maxfeatures)
              THEN IF MajorVersion(self) >= 2
                   THEN DictSet(req, kCount, StrInt(a.maxfeatures.v))
                   ELSE DictSet(req, kMaxfeatures, StrInt(a.maxfeatures.v))
              ELSE req
    IN  IF Truthy(a.startindex) THEN DictSet(r1, kStartindex, StrInt(a.startindex.v)) ELSE r1

RECURSIVE MergeParamsKeep(_, _)
\* faulty variant: request.setdefault(param, ...), a key already set is kept
MergeParamsKeep(req, params) ==
    IF Len(params) = 0 THEN req
    ELSE MergeParamsKeep(IF DictHas(req, params[1][1]) THEN req
                         ELSE DictSet(req, params[1][1], params[1][2]), Tail(params))

RECURSIVE MergeParams(_, _)
\* lines 208-209: for param in storedQueryParams: request[param] = ...
MergeParams(req, params) ==
    IF Len(params) = 0 THEN req
    ELSE MergeParams(DictSet(req, params[1][1], params[1][2]), Tail(params))

\* line 165: storedQueryParams or {}
ParamsOrEmpty(a) == IF Truthy(a.storedQueryParams) THEN a.storedQueryParams.v ELSE <<>>

\* lines 206-209
SetStoredQuery(a, req) ==
    IF Truthy(a.storedQueryID)
    THEN MergeParams(DictSet(req, kStoredQueryId, a.storedQueryID.v), ParamsOrEmpty(a))
    ELSE req

\* lines 210-211
SetOutputFormat(a, req) ==
    IF a.outputFormat.tag # "none" THEN DictSet(req, kOutputFormat, a.outputFormat.v) ELSE req

\* lines 176-211: the parameter mapping handed to urlencode, or the error
GetRequestParams(self, a) ==
    LET sel == SetSelector(self, a, RequestInit(self))
    IN  IF sel.tag = "raise" THEN sel
        ELSE Ok(SetOutputFormat(a,
                  SetStoredQuery(a,
                    SetPaging(self, a,
                      SetPassThrough(a,
                        SetTypename(self, a, sel.v))))))

getGETGetFeatureRequest(self, a) ==
    LET url == LookupUrl(self, a.method)
        req == GetRequestParams(self, a)
    IN  IF url.tag = "raise" THEN url
        ELSE IF req.tag = "raise" THEN req
        ELSE Ok(GetBaseUrl(url.v) \o urlencode(req.v))

(***************************************************************************)
(* owslib.feature.postrequest.PostRequest_2_0_0: the document under        *)
(* construction is the record of what its setters were given; to_string    *)
(* serialises it.                                                          *)
(***************************************************************************)
NewDocument ==
    [typeNames |-> None, featureid |-> None, bbox |-> None, filter |-> None,
     maxfeatures |-> None, outputformat |-> None, startindex |-> None,
     propertyname |-> None, sortby |-> None]

create_query(doc, typenames) == [doc EXCEPT !.typeNames = Str(typenames)]
set_featureid(doc, featureid) == [doc EXCEPT !.featureid = featureid]
set_bbox(doc, bbox) == [doc EXCEPT !.bbox = bbox]
set_filter(doc, filter) == [doc EXCEPT !.filter = filter]
set_maxfeatures(doc, n) == [doc EXCEPT !.maxfeatures = n]
set_outputformat(doc, fmt) == [doc EXCEPT !.outputformat = fmt]
set_startindex(doc, n) == [doc EXCEPT !.startindex = n]
set_propertyname(doc, names) == [doc EXCEPT !.propertyname = names]
set_sortby(doc, names) == [doc EXCEPT !.sortby = names]
to_string(doc) == [tag |-> "xml", v |-> doc]

(***************************************************************************)
(* getPOSTGetFeatureRequest, lines 217-316.                                *)
(***************************************************************************)
\* lines 267-273: one warning per unsupported argument that is supplied
PostWarnings(a) ==
    (IF Truthy(a.featureversion) THEN <<"featureversion">> ELSE <<>>) \o
    (IF Truthy(a.storedQueryID) THEN <<"storedQueryID">> ELSE <<>>) \o
    (IF Truthy(a.storedQueryParams) THEN <<"storedQueryParams">> ELSE <<>>)

\* line 282
PostBaseUrl(url) == IF ~EndsWith(url, "?") THEN url ELSE SubSeq(url, 1, Len(url) - 1)

\* faulty variant: the shortcut also requires featureid to be absent
FilterOnlyNoFeatureid(a) == ~Truthy(a.typename) /\ Truthy(a.filter) /\ ~Truthy(a.featureid)

\* line 284: the filter-only request, which returns before any document
FilterOnly(a) == ~Truthy(a.typename) /\ Truthy(a.filter)

\* lines 296-301
PostSelector(a, doc) ==
    IF Truthy(a.featureid) THEN set_featureid(doc, a.featureid)
    ELSE IF Truthy(a.bbox) THEN set_bbox(doc, a.bbox)
    ELSE IF Truthy(a.filter) THEN set_filter(doc, a.filter)
    ELSE doc

\* lines 303-312
PostOptions(a, doc) ==
    LET d1 == IF Truthy(a.maxfeatures) THEN set_maxfeatures(doc, a.maxfeatures) ELSE doc
        d2 == IF Truthy(a.outputFormat) THEN set_outputformat(d1, a.outputFormat) ELSE d1
        d3 == IF Truthy(a.startindex) THEN set_startindex(d2, a.startindex) ELSE d2
        d4 == IF Truthy(a.propertyname) THEN set_propertyname(d3, a.propertyname) ELSE d3
    IN  IF Truthy(a.sortby) THEN set_sortby(d4, a.sortby) ELSE d4

\* faulty variant: a stored query is refused instead of ignored
PostDocumentStrict(self, a) ==
    IF create_post_request(self).tag = "none" THEN Raise("AttributeError")
    ELSE IF ~Truthy(a.typename) THEN Raise("UnboundLocalError")
    ELSE IF Truthy(a.storedQueryID) \/ Truthy(a.featureversion)
    THEN Raise("NotImplementedError")
    ELSE Ok(PostOptions(a,
              PostSelector(a,
                create_query(NewDocument, Join(sComma, AsList(a.typename))))))

\* lines 287-314: the document, or the error of building it.  request is
\* None for a version without a builder (its create_query attribute is
\* looked up first); typenames is unbound when typename was falsy.
PostDocument(self, a) ==
    IF create_post_request(self).tag = "none" THEN Raise("AttributeError")
    ELSE IF ~Truthy(a.typename) THEN Raise("UnboundLocalError")
    ELSE Ok(PostOptions(a,
              PostSelector(a,
                create_query(NewDocument, Join(sComma, AsList(a.typename))))))

getPOSTGetFeatureRequest(self, a) ==
    LET url == LookupUrl(self, a.method)
        doc == PostDocument(self, a)
    IN  IF url.tag = "raise" THEN url
        ELSE IF FilterOnly(a) THEN Ok(<<PostBaseUrl(url.v), a.filter>>)
        ELSE IF doc.tag = "raise" THEN doc
        ELSE Ok(<<PostBaseUrl(url.v), to_string(doc.v)>>)

\* whether the call reaches line 293 and invokes create_post_request
PostCreates(self, a) == LookupUrl(self, a.method).tag = "ok" /\ ~FilterOnly(a)

\* the document the call has built when it returns one
PostRequestDoc(self, a) ==
    IF PostCreates(self, a) /\ PostDocument(self, a).tag = "ok"
    THEN Ok(PostDocument(self, a).v) ELSE None

(***************************************************************************)
(* Inputs.                                                                 *)
(***************************************************************************)
sGet == <<"G", "e", "t">>
sGETUpper == <<"G", "E", "T">>
sPost == <<"P", "o", "s", "t">>
sPOSTUpper == <<"P", "O", "S", "T">>
urlH == <<"h">>
urlGQ == <<"g", "?">>
urlGQQ == <<"g", "?", "?">>

MethodEntries ==
    { [type |-> sGet, url |-> urlH],
      [type |-> sGETUpper, url |-> urlGQ],
      [type |-> sPost, url |-> urlGQQ] }

\* method lists without repeated entries, of at most MaxMethods entries
MethodLists ==
    UNION { { l \in [1..n -> MethodEntries] : \A i, j \in 1..n : i # j => l[i] # l[j] }
            : n \in 0..MaxMethods }

\* "ab" and "a" are feature types of the metadata, "ba" and "b" are not
TypenameArgs == {None, List(<<>>), List(<<nAB>>), List(<<nA, nAB>>), Str(nAB), Str(nBA)}

TypeNames == {nA, nAB, nBA}

\* (minx, miny, maxx, maxy) with the lower corner in 0..MaxCoord
Boxes == { <<x, y, x + 2, y + 3>> : x, y \in 0..MaxCoord }

BBoxArgs == { Tuple(b) : b \in Boxes } \cup
            { Tuple(b \o <<id>>) : b \in Boxes, id \in CrsIds }

\* the box given to the request builders, without and with a CRS
BuilderBox == <<0, MaxCoord, 2, MaxCoord + 3>>

BuilderBBoxArgs == {None, Tuple(BuilderBox), Tuple(BuilderBox \o <<idUrn4326>>)}

sFilter == <<"<", "F", "/", ">">>
sQ == <<"q">>
sO == <<"o">>
sX == <<"x">>
s7 == <<"7">>

\* the items a storedQueryParams mapping is made of
ParamItems == { <<kBbox, sX>>, <<kMaxfeatures, sX>>, <<kOutputFormat, sX>> }

\* mappings of at most MaxParams items, with distinct keys
ParamDicts ==
    UNION { { d \in [1..n -> ParamItems] : \A i, j \in 1..n : i # j => d[i][1] # d[j][1] }
            : n \in 1..MaxParams }

ParamArgs == {None} \cup { Dict(d) : d \in ParamDicts }

\* the stored query of a call: its id, its parameters, or both
StoredQueryArgs ==
    { [id |-> q, params |-> p] : q \in {None, Str(sQ)}, p \in ParamArgs }
        \ { [id |-> None, params |-> None] }

\* what a caller chooses one by one; "options" stands for propertyname,
\* sortby and startindex, supplied together or not at all, "storedQuery"
\* for storedQueryID and storedQueryParams
ArgNames ==
    {"typename", "filter", "bbox", "featureid", "featureversion", "maxfeatures",
     "storedQuery", "outputFormat", "method", "options"}

\* the values a choice takes when the caller makes it; other is the
\* method name that is not the builder's default
Choices(n, other) ==
    CASE n = "typename" -> TypenameArgs \ {None}
      [] n = "filter" -> {Str(sFilter)}
      [] n = "bbox" -> BuilderBBoxArgs \ {None}
      [] n = "featureid" -> {List(<<>>), List(<<<<"f", "1">>, <<"f", "2">>>>)}
      [] n = "featureversion" -> {Str(s7)}
      [] n = "maxfeatures" -> {Num(0), Num(50)}
      [] n = "storedQuery" -> StoredQueryArgs
      [] n = "outputFormat" -> {Str(<<>>), Str(sO)}
      [] n = "method" -> {other}
      [] n = "options" -> {Str(sO)}

\* the signature's default: None, and the builder's own method name
Default(n, method) ==
    CASE n = "method" -> method
      [] n = "storedQuery" -> [id |-> None, params |-> None]
      [] OTHER -> None

RECURSIVE Choose(_, _, _, _)
\* the choices over names that depart from the defaults in at most k places
Choose(names, k, method, other) ==
    IF names = {} THEN {<<>>}
    ELSE LET n == CHOOSE x \in names : TRUE
             rest == names \ {n}
         IN  { (n :> Default(n, method)) @@ r : r \in Choose(rest, k, method, other) } \cup
             (IF k = 0 THEN {}
              ELSE { (n :> c) @@ r :
                     r \in Choose(rest, k - 1, method, other), c \in Choices(n, other) })

\* the keyword arguments of the call a choice stands for
Arguments(c) ==
    [typename |-> c.typename, filter |-> c.filter, bbox |-> c.bbox,
     featureid |-> c.featureid, featureversion |-> c.featureversion,
     propertyname |-> IF c.options.tag = "none" THEN None ELSE List(<<<<"p">>, <<"r">>>>),
     maxfeatures |-> c.maxfeatures, storedQueryID |-> c.storedQuery.id,
     storedQueryParams |-> c.storedQuery.params, outputFormat |-> c.outputFormat,
     method |-> c.method,
     startindex |-> IF c.options.tag = "none" THEN None ELSE Num(3),
     sortby |-> IF c.options.tag = "none" THEN None ELSE List(<<<<"p">>>>)]

GetArgs == { Arguments(c) : c \in Choose(ArgNames, MaxSupplied, sGet, sPOSTUpper) }

PostArgs == { Arguments(c) : c \in Choose(ArgNames, MaxSupplied, sPost, sGETUpper) }

SrsArgs == { Str(id) : id \in CrsIds } \cup { [tag |-> "crs", v |-> Crs(id)] : id \in CrsIds }

(***************************************************************************)
(* The state machine: a service object built from capability metadata,     *)
(* then any sequence of calls.  op and args name the call in progress,     *)
(* result is what it returned or raised, request the mapping or document   *)
(* it built, log the warnings it logged, created whether it invoked        *)
(* create_post_request.  Return hands control back to the caller.          *)
(***************************************************************************)
Init ==
    /\ version \in Versions
    /\ contents = Contents
    /\ methods \in MethodLists
    /\ op = "idle"
    /\ args = None
    /\ result = None
    /\ request = None
    /\ log = <<>>
    /\ created = FALSE

CallBBOXKVP ==
    /\ op = "idle"
    /\ \E b \in BBoxArgs, t \in TypenameArgs :
        /\ op' = "getBBOXKVP"
        /\ args' = [bbox |-> b, typename |-> t]
        /\ result' = getBBOXKVP(Self, b, t)
        /\ request' = None
        /\ log' = <<>>
        /\ created' = FALSE
        /\ UNCHANGED <<version, contents, methods>>

CallCreatePost ==
    /\ op = "idle"
    /\ op' = "create_post_request"
    /\ args' = None
    /\ result' = Ok(create_post_request(Self))
    /\ request' = None
    /\ log' = <<>>
    /\ created' = TRUE
    /\ UNCHANGED <<version, contents, methods>>

CallGetSRS ==
    /\ op = "idle"
    /\ \E s \in SrsArgs, t \in TypeNames :
        /\ op' = "getSRS"
        /\ args' = [srsname |-> s, typename |-> t]
        /\ result' = getSRS(Self, s, t)
        /\ request' = None
        /\ log' = getSRSLog(Self, s, t)
        /\ created' = FALSE
        /\ UNCHANGED <<version, contents, methods>>

CallGET ==
    /\ op = "idle"
    /\ \E a \in GetArgs :
        /\ op' = "GET"
        /\ args' = a
        /\ result' = getGETGetFeatureRequest(Self, a)
        /\ request' = IF result'.tag = "ok" THEN GetRequestParams(Self, a) ELSE None
        /\ log' = <<>>
        /\ created' = FALSE
        /\ UNCHANGED <<version, contents, methods>>

CallPOST ==
    /\ op = "idle"
    /\ \E a \in PostArgs :
        /\ op' = "POST"
        /\ args' = a
        /\ result' = getPOSTGetFeatureRequest(Self, a)
        /\ request' = PostRequestDoc(Self, a)
        /\ log' = PostWarnings(a)
        /\ created' = PostCreates(Self, a)
        /\ UNCHANGED <<version, contents, methods>>

Return ==
    /\ op # "idle"
    /\ op' = "idle"
    /\ args' = None
    /\ result' = None
    /\ request' = None
    /\ log' = <<>>
    /\ created' = FALSE
    /\ UNCHANGED <<version, contents, methods>>

Next == CallBBOXKVP \/ CallCreatePost \/ CallGetSRS \/ CallGET \/ CallPOST \/ Return

Spec == Init /\ [][Next]_vars

\* the GET side: the KVP builder and the helpers it rests on
NextGET == CallBBOXKVP \/ CallGetSRS \/ CallGET \/ Return

SpecGET == Init /\ [][NextGET]_vars

\* the POST side: the document builder and its factory
NextPOST == CallCreatePost \/ CallPOST \/ Return

SpecPOST == Init /\ [][NextPOST]_vars

(***************************************************************************)
(* Properties.                                                             *)
(***************************************************************************)
\* the positions of the method-list entries that match the call's method
Hits == { i \in 1..Len(methods) : Lower(methods[i].type) = Lower(args.method) }

FirstHitUrl == methods[CHOOSE i \in Hits : \A j \in Hits : i <= j].url

IsPrefix(p, s) == Len(p) <= Len(s) /\ SubSeq(s, 1, Len(p)) = p

Returned == result.tag = "ok"

\* the keys the stored-query parameters of the call put into the request
Injected ==
    IF Truthy(args.storedQueryID) /\ Truthy(args.storedQueryParams)
    THEN { args.storedQueryParams.v[i][1] : i \in 1..Len(args.storedQueryParams.v) }
    ELSE {}

\* the key of the one selector the priority featureid > bbox > filter picks
Selected ==
    IF Truthy(args.featureid) THEN {kFeatureid}
    ELSE IF Truthy(args.bbox) THEN {kBbox}
    ELSE IF Truthy(args.filter) THEN {kQuery}
    ELSE {}

Has(k) == DictHas(request.v, k)

\* C1 as stated: a GET request encodes featureid and neither bbox nor
\* filter when featureid is supplied, bbox and no filter when only bbox
\* (and maybe filter) is supplied, and filter only when both are absent.
C1_AsStated ==
    (op = "GET" /\ Returned) =>
        /\ Truthy(args.featureid) =>
              Has(kFeatureid) /\ ~Has(kBbox) /\ ~Has(kQuery) /\ ~Has(kFilter)
        /\ (~Truthy(args.featureid) /\ Truthy(args.bbox)) =>
              Has(kBbox) /\ ~Has(kQuery) /\ ~Has(kFilter)
        /\ (Has(kQuery) \/ Has(kFilter)) =>
              (~Truthy(args.featureid) /\ ~Truthy(args.bbox))

\* C1 amended: of the keys featureid, bbox and query (the key the filter
\* is encoded under), a GET request holds the one picked by the priority
\* featureid > bbox > filter, and any other of them only as a key of
\* storedQueryParams merged because storedQueryID is given.
C1_SelectorPriority ==
    (op = "GET" /\ Returned) =>
        /\ \A k \in {kFeatureid, kBbox, kQuery, kFilter} :
              Has(k) <=> (k \in Selected \/ k \in Injected)
        /\ Cardinality({ k \in {kFeatureid, kBbox, kQuery} : Has(k) /\ k \notin Injected }) <= 1

C1_Witness ==
    /\ op = "GET" /\ Returned
    /\ Truthy(args.featureid) /\ Truthy(args.bbox)
    /\ Has(kFeatureid) /\ ~Has(kBbox)

\* the CRS a direct getBBOXKVP call formats its box in
CallSrs == BBoxSrs(Self, args.bbox, args.typename).v

UrnVersion == version \in {V110, V200}

\* C2: getBBOXKVP returns five comma-joined tokens; the coordinates are in
\* the order (miny, minx, maxy, maxx) exactly when the version is 1.1.0 or
\* 2.0.0 and the CRS is urn-encoded with axis order yx, and (minx, miny,
\* maxx, maxy) otherwise; the fifth token is the URN code exactly when the
\* version is 1.1.0 or 2.0.0 and the CRS is urn-encoded, else the plain code.
C2_BBoxTokens ==
    (op = "getBBOXKVP" /\ Returned) =>
        LET tokens == Split(result.v, ",")
            b == args.bbox.v
            swapped == UrnVersion /\ CallSrs.encoding = "urn" /\ CallSrs.axisorder = "yx"
        IN  /\ Len(tokens) = 5
            /\ <<IntStr(tokens[1]), IntStr(tokens[2]), IntStr(tokens[3]), IntStr(tokens[4])>>
                 = IF swapped THEN <<b[2], b[1], b[4], b[3]>> ELSE <<b[1], b[2], b[3], b[4]>>
            /\ tokens[5] = IF UrnVersion /\ CallSrs.encoding = "urn"
                           THEN getcodeurn(CallSrs) ELSE getcode(CallSrs)

C2_Witness ==
    /\ op = "getBBOXKVP" /\ Returned
    /\ version = V110
    /\ Len(args.bbox.v) = 5 /\ args.bbox.v[5] = idUrn4326
    /\ args.bbox.v[1] # args.bbox.v[2]
    /\ IntStr(Split(result.v, ",")[1]) = args.bbox.v[2]

NewVocabulary == version \in {V200, V20}

\* C3 as stated: under a major version >= 2 the keys are typenames and
\* count and the keys typename and maxfeatures never appear; under a major
\* version < 2 the keys are typename and maxfeatures and the keys
\* typenames and count never appear.
C3_AsStated ==
    (op = "GET" /\ Returned) =>
        /\ Truthy(args.typename) => Has(IF NewVocabulary THEN kTypenames ELSE kTypename)
        /\ Truthy(args.maxfeatures) => Has(IF NewVocabulary THEN kCount ELSE kMaxfeatures)
        /\ NewVocabulary => ~Has(kTypename) /\ ~Has(kMaxfeatures)
        /\ ~NewVocabulary => ~Has(kTypenames) /\ ~Has(kCount)

\* C3 amended: the builder itself encodes the feature-type list under
\* typenames and maxfeatures under count when the major version is >= 2,
\* and under typename and maxfeatures when it is < 2; a key of the other
\* vocabulary appears in the request only as a key of storedQueryParams
\* merged because storedQueryID is given.
C3_Vocabulary ==
    (op = "GET" /\ Returned) =>
        /\ Truthy(args.typename) => Has(IF NewVocabulary THEN kTypenames ELSE kTypename)
        /\ Truthy(args.maxfeatures) => Has(IF NewVocabulary THEN kCount ELSE kMaxfeatures)
        /\ \A k \in (IF NewVocabulary THEN {kTypename, kMaxfeatures} ELSE {kTypenames, kCount}) :
              Has(k) <=> k \in Injected
        /\ (Truthy(args.maxfeatures) /\ Injected = {}) =>
              DictGet(request.v, IF NewVocabulary THEN kCount ELSE kMaxfeatures) = <<"5", "0">>

C3_Witness ==
    /\ op = "GET" /\ Returned
    /\ version = V200
    /\ Truthy(args.maxfeatures) /\ Truthy(args.typename)
    /\ Has(kCount) /\ ~Has(kMaxfeatures) /\ Has(kTypenames) /\ ~Has(kTypename)

\* C4 as stated: with storedQueryID given, the request holds
\* storedQuery_id and every key of storedQueryParams with exactly the
\* caller's value, whichever built-in key it collides with.
C4_AsStated ==
    (op = "GET" /\ Returned /\ Truthy(args.storedQueryID)) =>
        /\ Has(kStoredQueryId)
        /\ Truthy(args.storedQueryParams) =>
              \A i \in 1..Len(args.storedQueryParams.v) :
                 /\ Has(args.storedQueryParams.v[i][1])
                 /\ DictGet(request.v, args.storedQueryParams.v[i][1])
                      = args.storedQueryParams.v[i][2]

\* C4 amended: with storedQueryID given, the request holds storedQuery_id
\* and every key of storedQueryParams; the key carries the caller's value,
\* overriding a built-in value, except the key outputFormat when the
\* outputFormat argument is given: that argument is written after the
\* merge and its value stands.
C4_StoredQueryMerge ==
    (op = "GET" /\ Returned /\ Truthy(args.storedQueryID)) =>
        /\ Has(kStoredQueryId)
        /\ Truthy(args.storedQueryParams) =>
              \A i \in 1..Len(args.storedQueryParams.v) :
                 LET k == args.storedQueryParams.v[i][1]
                 IN  /\ Has(k)
                     /\ DictGet(request.v, k) =
                          IF k = kOutputFormat /\ args.outputFormat.tag # "none"
                          THEN args.outputFormat.v
                          ELSE args.storedQueryParams.v[i][2]

\* a caller's bbox key replaces the bounding box the builder encoded
C4_Witness ==
    /\ op = "GET" /\ Returned
    /\ Truthy(args.storedQueryID)
    /\ Truthy(args.bbox) /\ ~Truthy(args.featureid)
    /\ kBbox \in Injected
    /\ DictGet(request.v, kBbox) = sX

\* the endpoint a builder is to use: GET appends a missing "?", POST
\* strips one trailing "?"
ExpectedGetUrl == IF EndsWith(FirstHitUrl, "?") THEN FirstHitUrl ELSE FirstHitUrl \o <<"?">>

ExpectedPostUrl ==
    IF EndsWith(FirstHitUrl, "?") THEN SubSeq(FirstHitUrl, 1, Len(FirstHitUrl) - 1)
    ELSE FirstHitUrl

\* C5: a GET or POST builder call fails when no entry of the GetFeature
\* method list has the requested method, compared case-insensitively, and
\* a call that returns uses the URL of the first matching entry.
C5_EndpointLookup ==
    /\ (op \in {"GET", "POST"} /\ Hits = {}) => result.tag = "raise"
    /\ (op = "GET" /\ Returned) => IsPrefix(ExpectedGetUrl \o kService, result.v)
    /\ (op = "POST" /\ Returned) => result.v[1] = ExpectedPostUrl

C5_Witness ==
    /\ op = "GET" /\ Returned
    /\ Cardinality(Hits) = 2
    /\ methods[1].url # methods[2].url
    /\ methods[1].type # args.method

\* C6 as stated: getSRS returns the declared entry equal to the requested
\* CRS when there is one, the null marker when there is none, and never
\* raises.
C6_AsStated ==
    op = "getSRS" =>
        /\ Returned
        /\ (result.v.tag = "none") <=>
              ~\E i \in 1..Len(contents[args.typename].crsOptions) :
                  CrsEq(contents[args.typename].crsOptions[i], SrsArg(args.srsname))

\* C6 amended: for a feature type of the capability metadata getSRS
\* returns an entry of its CRS option list, as declared, that equals the
\* requested CRS when there is one, and the null marker (after a warning)
\* when there is none, without raising; for a feature type that is not in
\* the metadata the lookup error is raised.
C6_ResolveCRS ==
    op = "getSRS" =>
        IF args.typename \in DOMAIN contents
        THEN LET options == contents[args.typename].crsOptions
                 wanted == SrsArg(args.srsname)
             IN  /\ Returned
                 /\ IF \E i \in 1..Len(options) : CrsEq(options[i], wanted)
                    THEN /\ result.v.tag = "crs"
                         /\ \E i \in 1..Len(options) : result.v.v = options[i]
                         /\ CrsEq(result.v.v, wanted)
                         /\ log = <<>>
                    ELSE /\ result.v.tag = "none"
                         /\ Len(log) = 1
        ELSE result.tag = "raise"

\* the entry returned is the server's, written differently from the request
C6_Witness ==
    /\ op = "getSRS" /\ Returned
    /\ result.v.tag = "crs"
    /\ result.v.v.id # SrsArg(args.srsname).id

\* C7: under every version, a POST call without feature types and with a
\* filter returns the endpoint, one trailing "?" stripped, and the filter
\* unchanged, and does not invoke create_post_request.
C7_FilterOnly ==
    (op = "POST" /\ ~Truthy(args.typename) /\ Truthy(args.filter)) =>
        /\ ~created
        /\ request.tag = "none"
        /\ IF Hits = {} THEN result.tag = "raise"
           ELSE Returned /\ result.v = <<ExpectedPostUrl, args.filter>>

C7_Witness ==
    /\ op = "POST" /\ Returned
    /\ version = V100
    /\ ~Truthy(args.typename) /\ Truthy(args.filter)
    /\ Truthy(args.featureid)
    /\ FirstHitUrl = urlGQQ /\ result.v[1] = urlGQ

\* C8: under a version other than 2.0 and 2.0.0, a POST call with a
\* feature-type list never returns a (URL, body) pair: it raises, with the
\* missing builder as the error once the endpoint is found, and no
\* document is produced.
C8_NoBuilder ==
    (op = "POST" /\ version \notin {V20, V200} /\ Truthy(args.typename)) =>
        /\ result.tag = "raise"
        /\ request.tag = "none"
        /\ Hits # {} => result.exc = "AttributeError"

C8_Witness ==
    /\ op = "POST" /\ version = V110
    /\ Truthy(args.typename)
    /\ Hits # {}
    /\ created
    /\ result.tag = "raise"

\* the call's arguments with the three unsupported ones left out
WithoutUnsupported ==
    [args EXCEPT !.featureversion = None, !.storedQueryID = None,
                 !.storedQueryParams = None]

\* C9: a POST call returns or raises exactly what the call without
\* featureversion, storedQueryID and storedQueryParams does; each of them
\* that is supplied adds one warning to the log and nothing else.
C9_UnsupportedIgnored ==
    op = "POST" =>
        /\ result = getPOSTGetFeatureRequest(Self, WithoutUnsupported)
        /\ Len(log) = Cardinality({ n \in {"featureversion", "storedQueryID",
                                           "storedQueryParams"} : Truthy(args[n]) })

C9_Witness ==
    /\ op = "POST" /\ Returned
    /\ Truthy(args.typename)
    /\ Truthy(args.storedQueryID)
    /\ Len(log) > 0
    /\ result.v[2].tag = "xml"

\* the first feature type named by the call, for either form of typename
FirstTypeName == IF args.typename.tag = "str" THEN args.typename.v ELSE args.typename.v[1]

\* C10: a GET request that encodes a bounding box without a 5th element
\* formats it in the first CRS option declared for the first feature type
\* of the call, whether typename is a list of names or a single name.
C10_DefaultCrs ==
    (/\ op = "GET"
     /\ Hits # {}
     /\ ~Truthy(args.featureid)
     /\ Truthy(args.bbox) /\ Len(args.bbox.v) = 4
     /\ Truthy(args.typename)
     /\ FirstTypeName \in DOMAIN contents
     /\ kBbox \notin Injected) =>
        /\ Returned
        /\ LET srs == contents[FirstTypeName].crsOptions[1]
           IN  Split(DictGet(request.v, kBbox), ",")[5] =
                 IF UrnVersion /\ srs.encoding = "urn" THEN getcodeurn(srs) ELSE getcode(srs)

====
